---- MODULE Spec2Model ----
(***************************************************************************)
(* Model of backend/main.py: the ConnectionManager (registry of websocket  *)
(* listeners guarded by one asyncio.Lock), the three mutation handlers     *)
(* that commit to the player table and then broadcast, and the /ws         *)
(* endpoint that registers a listener and sends it the init snapshot.      *)
(*                                                                         *)
(* Granularity: asyncio runs one task at a time and switches tasks only at *)
(* an await that really suspends.  An action is therefore everything a     *)
(* task does between two suspensions.  The suspension points are           *)
(* websocket.accept(), lock.acquire() on a held lock, send_json() and      *)
(* receive_text().  Acquiring a free lock and releasing a lock do not      *)
(* suspend.                                                                *)
(***************************************************************************)
EXTENDS Integers, Sequences, FiniteSets, TLC

\* ---- bounds -------------------------------------------------------------
NumWS == 2          \* websocket clients that ever connect
NumRequests == 3    \* mutation requests (each its own task) in one run
MaxPlayers == 2     \* player ids, the initial rows included
InitialRows == 1    \* rows of players.db when the service starts

WebSockets == 1..NumWS
Requests == 1..NumRequests
PlayerIds == 1..MaxPlayers

Absent == -1        \* session.get(Player, id) returns None
None == <<>>
NoMsg == [type |-> "none", id |-> 0, n |-> 0, players |-> {}]

WsTask(w) == <<"ws", w>>
ReqTask(h) == <<"req", h>>

\* Exceptions a failed send_json can raise; all are subclasses of Exception.
SendErrors == {"WebSocketDisconnect", "RuntimeError"}

VARIABLES
    active_connections, \* ConnectionManager.active_connections (a list)
    lockOwner,          \* task holding ConnectionManager.lock, or None
    waiters,            \* tasks suspended in lock.acquire(), FIFO
    store,              \* player table: id -> Absent, or the number of the
                        \*   commit that last wrote the row (0 = seed data)
    commits,            \* committed mutations, in commit order (history)
    wpc,                \* position of each websocket_endpoint task
    cstate,             \* transport of each websocket: open/closed/stalled
    sent,               \* per websocket: messages handed to send_json, in
                        \*   call order (history)
    hpc,                \* position of each mutation request's task; at the
                        \*   end, its response: "ok", "404" or "error"
    ev,                 \* broadcast's parameter `message` per request (kept
                        \*   after the return as the record of its event)
    conns,              \* broadcast's list(self.active_connections)
    idx,                \* broadcast's position in that list
    to_remove,          \* broadcast's to_remove list
    failed,             \* per websocket: messages whose send_json raised
                        \*   (history)
    closedAtStart       \* per request in a pass: the connections of its
                        \*   copy that were already closed when the pass
                        \*   began (history)

vars == <<active_connections, lockOwner, waiters, store, commits, wpc, cstate,
          sent, hpc, ev, conns, idx, to_remove, failed, closedAtStart>>

\* ---- helpers ------------------------------------------------------------
Range(s) == {s[i] : i \in DOMAIN s}

\* Mutant of RemoveIfPresent: without the `in` guard, a websocket that is
\* not in the list costs the list its last entry.
RemoveOrPop(s, x) ==
    IF x \notin Range(s) THEN SubSeq(s, 1, Len(s) - 1)
    ELSE LET i == CHOOSE k \in DOMAIN s :
                     s[k] = x /\ \A j \in 1..(k - 1) : s[j] # x
         IN SubSeq(s, 1, i - 1) \o SubSeq(s, i + 1, Len(s))

\* Mutant of RemoveIfPresent: the removal is skipped.
RemoveNothing(s, x) == s

\* list.remove(x) guarded by `x in list`: drops the first occurrence.
RemoveIfPresent(s, x) ==
    IF x \notin Range(s) THEN s
    ELSE LET i == CHOOSE k \in DOMAIN s :
                     s[k] = x /\ \A j \in 1..(k - 1) : s[j] # x
         IN SubSeq(s, 1, i - 1) \o SubSeq(s, i + 1, Len(s))

\* Mutant of Prune: the list is rebuilt from the failures instead of
\* without them.
PruneInverted(s, rem) == rem

\* Mutant of Prune: a failure empties the list.
PruneAll(s, rem) == IF rem = <<>> THEN s ELSE <<>>

\* Mutant of Prune: the pruning loop stops after its first removal.
PruneFirstOnly(s, rem) ==
    IF rem = <<>> THEN s ELSE RemoveIfPresent(s, Head(rem))

\* for r in to_remove: if r in active_connections: remove(r)
RECURSIVE Prune(_, _)
Prune(s, rem) ==
    IF rem = <<>> THEN s
    ELSE Prune(RemoveIfPresent(s, Head(rem)), Tail(rem))

\* Mutant of Register: the websocket is appended twice.
RegisterTwice(s, w) == Append(Append(s, w), w)

\* self.active_connections.append(websocket)
Register(s, w) == Append(s, w)

\* list(self.active_connections): the membership copy of one pass
MembershipCopy(s) == s

\* [player_to_dict(p) for p in all_players]: the rows of a table state
AllPlayers(st) == {<<p, st[p]>> : p \in {q \in PlayerIds : st[q] # Absent}}

\* Messages.  n numbers the commits: an event carries the number of its
\* commit, an init message the number of commits its record list includes.
InitMsg(rows, k) == [type |-> "init", id |-> 0, n |-> k, players |-> rows]
EventMsg(t, p, k) == [type |-> t, id |-> p, n |-> k, players |-> {}]

\* Mutant of BroadcastExcept: `except WebSocketDisconnect:` only.
ExceptDisconnectOnly(e) == e = "WebSocketDisconnect"

\* `except Exception:` around conn.send_json in broadcast
BroadcastExcept(e) == e \in SendErrors

\* `except WebSocketDisconnect:` around the receive loop
\* Mutant of EndpointExcept: the endpoint's except clause names another
\* exception.
ExceptRuntimeOnly(e) == e = "RuntimeError"

EndpointExcept(e) == e = "WebSocketDisconnect"

\* send_json raises when the transport is closed
SendRaises(c) == cstate[c] = "closed"

\* uuid4 primary key of a new player: an id never used before
Created == {i \in DOMAIN commits : commits[i].type = "player_created"}
NextId == InitialRows + Cardinality(Created) + 1

\* ---- the lock -----------------------------------------------------------
\* asyncio.Lock: acquire() returns at once when the lock is free, otherwise
\* the task queues; release() wakes the longest waiter, and nobody can take
\* the lock before that waiter has run.
\* Mutant of LockFree: acquire never waits.
LockIgnored == TRUE

LockFree == lockOwner = None

\* Mutant of ReleaseLock: an exit path leaves the lock as it is.
ReleaseLockSkipped == UNCHANGED <<lockOwner, waiters>>

\* Mutant of ReleaseLock: release wakes the newest waiter.
ReleaseLockLIFO ==
    IF waiters = <<>>
    THEN lockOwner' = None /\ waiters' = <<>>
    ELSE /\ lockOwner' = waiters[Len(waiters)]
         /\ waiters' = SubSeq(waiters, 1, Len(waiters) - 1)

ReleaseLock ==
    IF waiters = <<>>
    THEN lockOwner' = None /\ waiters' = <<>>
    ELSE lockOwner' = Head(waiters) /\ waiters' = Tail(waiters)

TakeLock(t) == lockOwner' = t /\ UNCHANGED waiters

Enqueue(t) == waiters' = Append(waiters, t) /\ UNCHANGED lockOwner

\* The table after startup(): the rows the database file holds (startup
\* seeds an empty table), written by no request of this run.
InitialStore == [p \in PlayerIds |-> IF p <= InitialRows THEN 0 ELSE Absent]

Init ==
    /\ active_connections = <<>>
    /\ lockOwner = None
    /\ waiters = <<>>
    /\ store = InitialStore
    /\ commits = <<>>
    /\ wpc = [w \in WebSockets |-> "accept"]
    /\ cstate = [w \in WebSockets |-> "open"]
    /\ sent = [w \in WebSockets |-> <<>>]
    /\ hpc = [h \in Requests |-> "new"]
    /\ ev = [h \in Requests |-> NoMsg]
    /\ conns = [h \in Requests |-> <<>>]
    /\ idx = [h \in Requests |-> 0]
    /\ to_remove = [h \in Requests |-> <<>>]
    /\ failed = [w \in WebSockets |-> {}]
    /\ closedAtStart = [h \in Requests |-> {}]


\* ---- ConnectionManager.broadcast ---------------------------------------
\* send_json(m) is called on c: the message is handed to the channel.
SendJson(c, m) == sent' = [sent EXCEPT ![c] = Append(@, m)]

\* A pending send_json(m) on c raises.
Raise(c, m) == failed' = [failed EXCEPT ![c] = @ \cup {m}]

\* broadcast returns to the mutation handler, which returns its response
\* (r = "error": an exception reaches the framework instead); the locals of
\* broadcast are gone.
Return(h, r) ==
    /\ hpc' = [hpc EXCEPT ![h] = r]
    /\ conns' = [conns EXCEPT ![h] = <<>>]
    /\ idx' = [idx EXCEPT ![h] = 0]
    /\ to_remove' = [to_remove EXCEPT ![h] = <<>>]
    /\ closedAtStart' = [closedAtStart EXCEPT ![h] = {}]

\* Lines 72-75 with the lock held: to_remove = [], copy the list, call
\* send_json on the first connection; with no connection the pass is over.
BeginPass(h, m) ==
    LET copy == MembershipCopy(active_connections) IN
    IF copy = <<>>
    THEN /\ ReleaseLock
         /\ Return(h, "ok")
         /\ UNCHANGED <<active_connections, sent>>
    ELSE /\ TakeLock(ReqTask(h))
         /\ hpc' = [hpc EXCEPT ![h] = "bc_send"]
         /\ conns' = [conns EXCEPT ![h] = copy]
         /\ idx' = [idx EXCEPT ![h] = 1]
         /\ to_remove' = [to_remove EXCEPT ![h] = <<>>]
         /\ SendJson(copy[1], m)
         /\ closedAtStart' = [closedAtStart EXCEPT ![h] =
                                  {c \in Range(copy) : cstate[c] = "closed"}]
         /\ UNCHANGED active_connections

\* await manager.broadcast(message): `async with self.lock`
Broadcast(h, m) ==
    /\ ev' = [ev EXCEPT ![h] = m]
    /\ IF LockFree
       THEN BeginPass(h, m)
       ELSE /\ Enqueue(ReqTask(h))
            /\ hpc' = [hpc EXCEPT ![h] = "bc_wait"]
            /\ UNCHANGED <<active_connections, sent, conns, idx, to_remove,
                           closedAtStart>>

\* The handler was waiting for the lock and now owns it.
BroadcastLocked(h) ==
    /\ hpc[h] = "bc_wait"
    /\ lockOwner = ReqTask(h)
    /\ BeginPass(h, ev[h])
    /\ UNCHANGED <<store, commits, wpc, cstate, ev, failed>>

\* The pending send_json returns or raises (lines 75-77); the loop goes on
\* to the next connection, or the pass prunes (78-80), releases and returns.
BroadcastSendDone(h) ==
    /\ hpc[h] = "bc_send"
    /\ LET c == conns[h][idx[h]] IN
       /\ cstate[c] # "stalled"
       /\ \E e \in SendErrors :
            LET raised == SendRaises(c)
                tr == IF raised THEN Append(to_remove[h], c) ELSE to_remove[h]
            IN /\ IF raised THEN Raise(c, ev[h]) ELSE UNCHANGED failed
               /\ IF raised /\ ~BroadcastExcept(e)
                  THEN \* the exception leaves broadcast through `async with`
                       /\ ReleaseLock
                       /\ Return(h, "error")
                       /\ UNCHANGED <<active_connections, sent>>
                  ELSE IF idx[h] < Len(conns[h])
                  THEN /\ idx' = [idx EXCEPT ![h] = @ + 1]
                       /\ to_remove' = [to_remove EXCEPT ![h] = tr]
                       /\ SendJson(conns[h][idx[h] + 1], ev[h])
                       /\ UNCHANGED <<active_connections, lockOwner, waiters,
                                      hpc, conns, closedAtStart>>
                  ELSE /\ active_connections' = Prune(active_connections, tr)
                       /\ ReleaseLock
                       /\ Return(h, "ok")
                       /\ UNCHANGED sent
    /\ UNCHANGED <<store, commits, wpc, cstate, ev>>

\* ---- mutation handlers --------------------------------------------------
\* Mutant of Commit: the handler broadcasts without having committed.
CommitSkipped(p, v, m) == UNCHANGED <<store, commits>>

\* session.commit()
Commit(p, v, m) ==
    /\ store' = [store EXCEPT ![p] = v]
    /\ commits' = Append(commits, m)

\* Mutant of NotFound: the handler goes on to broadcast a delete of the
\* unknown player.
NotFoundIgnored(h) ==
    /\ Broadcast(h, EventMsg("player_deleted", 0, Len(commits)))
    /\ UNCHANGED <<store, commits>>

\* raise HTTPException(404, "Player not found")
NotFound(h) ==
    /\ hpc' = [hpc EXCEPT ![h] = "404"]
    /\ UNCHANGED <<active_connections, lockOwner, waiters, store, commits,
                   sent, ev, conns, idx, to_remove, closedAtStart>>

\* Requests are numbered in the order in which their handlers start to run.
Arrives(h) ==
    /\ hpc[h] = "new"
    /\ \A g \in Requests : g < h => hpc[g] # "new"

\* POST /players
create_player(h) ==
    /\ Arrives(h)
    /\ NextId \in PlayerIds
    /\ LET k == Len(commits) + 1
           m == EventMsg("player_created", NextId, k)
       IN Commit(NextId, k, m) /\ Broadcast(h, m)
    /\ UNCHANGED <<wpc, cstate, failed>>

\* PATCH /players/{player_id}/stats
update_stats(h, p) ==
    /\ Arrives(h)
    /\ IF store[p] = Absent
       THEN NotFound(h)
       ELSE LET k == Len(commits) + 1
                m == EventMsg("stats_updated", p, k)
            IN Commit(p, k, m) /\ Broadcast(h, m)
    /\ UNCHANGED <<wpc, cstate, failed>>

\* DELETE /players/{player_id}
delete_player(h, p) ==
    /\ Arrives(h)
    /\ IF store[p] = Absent
       THEN NotFound(h)
       ELSE LET k == Len(commits) + 1
                m == EventMsg("player_deleted", p, k)
            IN Commit(p, Absent, m) /\ Broadcast(h, m)
    /\ UNCHANGED <<wpc, cstate, failed>>

\* ---- websocket_endpoint -------------------------------------------------
\* Mutant of ReadAllPlayers: a record list read at startup is reused.
ReadStalePlayers == [rows |-> AllPlayers(InitialStore), n |-> 0]

\* session.exec(select(Player)).all() at line 191: the table as it is now
ReadAllPlayers == [rows |-> AllPlayers(store), n |-> Len(commits)]

\* Mutant of ConnectAndInit: the endpoint suspends between the registration
\* and the send_json call of the init message.
RegisterThenSuspend(w) ==
    /\ active_connections' = Register(active_connections, w)
    /\ ReleaseLock
    /\ wpc' = [wpc EXCEPT ![w] = "init_send"]
    /\ UNCHANGED sent

\* Lines 63 and 190-192 run without suspension: append, leave the lock, read
\* all players, call send_json with the init message.
ConnectAndInit(w) ==
    /\ active_connections' = Register(active_connections, w)
    /\ ReleaseLock
    /\ SendJson(w, InitMsg(ReadAllPlayers.rows, ReadAllPlayers.n))
    /\ wpc' = [wpc EXCEPT ![w] = "init_send"]

\* accept() returns and connect takes the lock, or queues for it.
\* Websockets are numbered in the order in which their accept() returns; a
\* client that goes away before that never reaches connect.
Connect(w) ==
    /\ wpc[w] = "accept"
    /\ \A v \in WebSockets : v < w => wpc[v] # "accept"
    /\ IF LockFree
       THEN ConnectAndInit(w)
       ELSE /\ Enqueue(WsTask(w))
            /\ wpc' = [wpc EXCEPT ![w] = "connect_wait"]
            /\ UNCHANGED <<active_connections, sent>>
    /\ UNCHANGED <<store, commits, cstate, hpc, ev, conns, idx, to_remove, failed,
                   closedAtStart>>

\* The endpoint was waiting for the lock in connect and now owns it.
ConnectLocked(w) ==
    /\ wpc[w] = "connect_wait"
    /\ lockOwner = WsTask(w)
    /\ ConnectAndInit(w)
    /\ UNCHANGED <<store, commits, cstate, hpc, ev, conns, idx, to_remove, failed,
                   closedAtStart>>

\* The init send_json returns, and the endpoint enters the receive loop; or
\* it raises: line 192 is outside the try, so the endpoint ends there.
InitSendDone(w) ==
    /\ wpc[w] = "init_send"
    /\ cstate[w] # "stalled"
    /\ IF SendRaises(w)
       THEN /\ wpc' = [wpc EXCEPT ![w] = "init_failed"]
            /\ Raise(w, sent[w][1])
       ELSE /\ wpc' = [wpc EXCEPT ![w] = "receive"]
            /\ UNCHANGED failed
    /\ UNCHANGED <<active_connections, lockOwner, waiters, store, commits,
                   cstate, sent, hpc, ev, conns, idx, to_remove, closedAtStart>>

\* Mutant of Detach: disconnect leaves the list as it is.
DetachNoRemove(w) ==
    /\ UNCHANGED active_connections
    /\ ReleaseLock
    /\ wpc' = [wpc EXCEPT ![w] = "done"]

\* manager.disconnect with the lock held (lines 67-68)
Detach(w) ==
    /\ active_connections' = RemoveIfPresent(active_connections, w)
    /\ ReleaseLock
    /\ wpc' = [wpc EXCEPT ![w] = "done"]

\* receive_text() raises WebSocketDisconnect: the client has gone.
ReceiveDisconnect(w) ==
    /\ wpc[w] = "receive"
    /\ cstate[w] = "closed"
    /\ EndpointExcept("WebSocketDisconnect")
    /\ IF LockFree
       THEN Detach(w)
       ELSE /\ Enqueue(WsTask(w))
            /\ wpc' = [wpc EXCEPT ![w] = "disconnect_wait"]
            /\ UNCHANGED active_connections
    /\ UNCHANGED <<store, commits, cstate, sent, hpc, ev, conns, idx, to_remove,
                   failed, closedAtStart>>

\* The endpoint was waiting for the lock in disconnect and now owns it.
DisconnectLocked(w) ==
    /\ wpc[w] = "disconnect_wait"
    /\ lockOwner = WsTask(w)
    /\ Detach(w)
    /\ UNCHANGED <<store, commits, cstate, sent, hpc, ev, conns, idx, to_remove,
                   failed, closedAtStart>>

\* ---- the clients' transports -------------------------------------------
\* A client closes its connection (or the network drops it).
CloseChannel(w) ==
    /\ cstate[w] = "open"
    /\ wpc[w] # "accept"
    /\ cstate' = [cstate EXCEPT ![w] = "closed"]
    /\ UNCHANGED <<active_connections, lockOwner, waiters, store, commits, wpc,
                   sent, hpc, ev, conns, idx, to_remove, failed, closedAtStart>>

\* A send_json to c has been called and has not returned yet.
SendPending(c) ==
    \/ wpc[c] = "init_send"
    \/ \E h \in Requests : hpc[h] = "bc_send" /\ conns[h][idx[h]] = c

\* A client stops reading: writes to it no longer complete.  Nothing in the
\* program can tell a stalled transport from an open one until a send is
\* pending on it, so the stall is placed there.
StallChannel(w) ==
    /\ cstate[w] = "open"
    /\ SendPending(w)
    /\ cstate' = [cstate EXCEPT ![w] = "stalled"]
    /\ UNCHANGED <<active_connections, lockOwner, waiters, store, commits, wpc,
                   sent, hpc, ev, conns, idx, to_remove, failed, closedAtStart>>

Next ==
    \/ \E h \in Requests : create_player(h)
    \/ \E h \in Requests, p \in PlayerIds : update_stats(h, p)
    \/ \E h \in Requests, p \in PlayerIds : delete_player(h, p)
    \/ \E h \in Requests : BroadcastLocked(h)
    \/ \E h \in Requests : BroadcastSendDone(h)
    \/ \E w \in WebSockets : Connect(w)
    \/ \E w \in WebSockets : ConnectLocked(w)
    \/ \E w \in WebSockets : InitSendDone(w)
    \/ \E w \in WebSockets : ReceiveDisconnect(w)
    \/ \E w \in WebSockets : DisconnectLocked(w)
    \/ \E w \in WebSockets : CloseChannel(w)
    \/ \E w \in WebSockets : StallChannel(w)

Spec == Init /\ [][Next]_vars

\* The event loop runs every task that is ready: a task that owns the lock
\* goes on, and a pending send or receive whose transport has answered
\* returns.  Nothing obliges clients to send requests, to connect, to close
\* or to stall.
Fairness ==
    /\ \A h \in Requests : WF_vars(BroadcastLocked(h))
    /\ \A h \in Requests : WF_vars(BroadcastSendDone(h))
    /\ \A w \in WebSockets : WF_vars(ConnectLocked(w))
    /\ \A w \in WebSockets : WF_vars(InitSendDone(w))
    /\ \A w \in WebSockets : WF_vars(ReceiveDisconnect(w))
    /\ \A w \in WebSockets : WF_vars(DisconnectLocked(w))

FairSpec == Spec /\ Fairness

\* The steps of a run in which every send_json returns or raises: no
\* transport stalls.
NextSendsTerminate ==
    \/ \E h \in Requests : create_player(h)
    \/ \E h \in Requests, p \in PlayerIds : update_stats(h, p)
    \/ \E h \in Requests, p \in PlayerIds : delete_player(h, p)
    \/ \E h \in Requests : BroadcastLocked(h)
    \/ \E h \in Requests : BroadcastSendDone(h)
    \/ \E w \in WebSockets : Connect(w)
    \/ \E w \in WebSockets : ConnectLocked(w)
    \/ \E w \in WebSockets : InitSendDone(w)
    \/ \E w \in WebSockets : ReceiveDisconnect(w)
    \/ \E w \in WebSockets : DisconnectLocked(w)
    \/ \E w \in WebSockets : CloseChannel(w)

TermSpec == Init /\ [][NextSendsTerminate]_vars /\ Fairness

TypeOK ==
    /\ Range(active_connections) \subseteq WebSockets
    /\ lockOwner = None => waiters = <<>>

\* ---- properties -------------------------------------------------------
EventTypes == {"player_created", "stats_updated", "player_deleted"}

IsEvent(m) == m.type \in EventTypes

\* w is past connect: it has been appended to active_connections.
Attached(w) == wpc[w] \notin {"accept", "connect_wait"}

Registered(w) == w \in Range(active_connections)

\* The step in which request h's broadcast pass ends.
PassEnds(h) == hpc[h] = "bc_send" /\ hpc'[h] # "bc_send"

\* C1: on every websocket the init message is the first message handed to
\* send_json and the only init message; before connect has appended the
\* websocket nothing is sent to it, so no event ever precedes the init.
C1_InitFirst ==
    \A w \in WebSockets :
        IF Attached(w)
        THEN /\ Len(sent[w]) >= 1
             /\ sent[w][1].type = "init"
             /\ \A i \in 2..Len(sent[w]) : IsEvent(sent[w][i])
        ELSE sent[w] = <<>> /\ ~Registered(w)

\* An event was handed to a websocket whose init send is still pending.
C1_Witness ==
    \E w \in WebSockets :
        /\ wpc[w] = "init_send"
        /\ Len(sent[w]) >= 2
        /\ sent[w][1].type = "init"
        /\ IsEvent(sent[w][2])

\* C2: the events handed to one websocket carry strictly increasing commit
\* numbers (the order of the broadcast calls), so no event is duplicated or
\* reordered and any two websockets see common events in the same order;
\* and a websocket that is still registered with no failed send has been
\* handed the event of every returned broadcast called after its connect.
C2_DispatchOrder ==
    \A w \in WebSockets :
        /\ \A i, j \in 2..Len(sent[w]) : i < j => sent[w][i].n < sent[w][j].n
        /\ (Registered(w) /\ failed[w] = {}) =>
              \A h \in Requests :
                  (hpc[h] = "ok" /\ ev[h].n > sent[w][1].n) =>
                      \E i \in 2..Len(sent[w]) : sent[w][i] = ev[h]

\* Two live websockets were both handed the same two events after init.
C2_Witness ==
    \E w, v \in WebSockets :
        /\ w # v
        /\ Registered(w) /\ Registered(v)
        /\ failed[w] = {} /\ failed[v] = {}
        /\ Len(sent[w]) = 3 /\ Len(sent[v]) = 3
        /\ sent[w][2] = sent[v][2] /\ sent[w][3] = sent[v][3]
        /\ \A h \in Requests : hpc[h] \in {"ok", "new"}

\* C3: no request ends with an exception out of broadcast: a request that
\* committed and broadcast ends with its success response, and the only
\* other response is the 404 of a request that committed nothing.
C3_BroadcastNeverRaises ==
    \A h \in Requests :
        /\ hpc[h] # "error"
        /\ hpc[h] = "404" => ev[h] = NoMsg
        /\ hpc[h] = "ok" => ev[h] \in Range(commits)

\* A request returned its success response although a send of its event
\* raised.
C3_Witness ==
    \E h \in Requests, w \in WebSockets : hpc[h] = "ok" /\ ev[h] \in failed[w]

\* C4: when a pass ends, its event has been handed to every connection of
\* the membership copy, and active_connections is the copy without exactly
\* the connections whose send of this event raised.
C4_PassOutcome ==
    [][\A h \in Requests :
          PassEnds(h) =>
            LET Kept(c) == ev[h] \notin failed'[c] IN
            /\ \A c \in Range(conns[h]) : ev[h] \in Range(sent'[c])
            /\ active_connections' = SelectSeq(conns[h], Kept)]_vars

\* A pass is over in which the send to the first connection raised and the
\* send to a later one succeeded: the first is gone, the later one stays.
C4_Witness ==
    \E h \in Requests, w, v \in WebSockets :
        /\ hpc[h] = "ok"
        /\ w < v
        /\ ev[h] \in failed[w] /\ ~Registered(w)
        /\ ev[h] \in Range(sent[v]) /\ ev[h] \notin failed[v] /\ Registered(v)

\* C5: a stalled listener does not stall the system: every broadcast call
\* eventually returns to its mutation handler, and every connect or
\* disconnect call waiting for the lock eventually gets it.
C5_StalledListenerDoesNotBlock ==
    /\ \A h \in Requests :
          (hpc[h] \in {"bc_wait", "bc_send"}) ~> (hpc[h] = "ok")
    /\ \A w \in WebSockets :
          (wpc[w] \in {"connect_wait", "disconnect_wait"})
              ~> (wpc[w] \notin {"connect_wait", "disconnect_wait"})

\* C6: a websocket whose init send raised is not in active_connections.
C6_FailedInitDetached ==
    \A w \in WebSockets : wpc[w] = "init_failed" => ~Registered(w)

\* The table after the first k commits.
RECURSIVE StoreAfter(_)
StoreAfter(k) ==
    IF k = 0 THEN InitialStore
    ELSE LET m == commits[k] IN
         [StoreAfter(k - 1) EXCEPT
             ![m.id] = IF m.type = "player_deleted" THEN Absent ELSE m.n]

\* The broadcast of commit k has returned.
PassOver(k) == \E h \in Requests : ev[h] = commits[k] /\ hpc[h] = "ok"

\* C7: for a registered websocket the record list of its init message is
\* the table after some number n of commits, and every commit whose
\* broadcast has returned is among those n or its event was handed to the
\* websocket.
C7_NoMutationLost ==
    \A w \in WebSockets :
        Registered(w) =>
            /\ sent[w][1].players = AllPlayers(StoreAfter(sent[w][1].n))
            /\ \A k \in 1..Len(commits) :
                  PassOver(k) =>
                      \/ k <= sent[w][1].n
                      \/ commits[k] \in Range(sent[w])

\* A registered websocket has one commit both in its record list and as an
\* event (its broadcast was waiting when the websocket was appended), and a
\* later commit as an event only.
C7_Witness ==
    \E w \in WebSockets :
        /\ Registered(w)
        /\ \E k \in 1..Len(commits) :
              k <= sent[w][1].n /\ commits[k] \in Range(sent[w])
        /\ \E k \in 1..Len(commits) :
              k > sent[w][1].n /\ commits[k] \in Range(sent[w]) /\ PassOver(k)

\* C8: a connection that was already closed when a pass began is out of
\* active_connections when that pass ends, and an event whose send raised
\* is the last message ever handed to its websocket.
C8_ClosedListenerPruned ==
    /\ [](\A w \in WebSockets : \A i \in 1..Len(sent[w]) :
            (IsEvent(sent[w][i]) /\ sent[w][i] \in failed[w]) => i = Len(sent[w]))
    /\ [][\A h \in Requests :
            PassEnds(h) =>
                \A c \in closedAtStart[h] : c \notin Range(active_connections')]_vars

\* A websocket took one event, the send of the next one raised and it was
\* pruned; a later pass is over that served another websocket and not it.
C8_Witness ==
    \E w, v \in WebSockets, h \in Requests :
        /\ w # v
        /\ Len(sent[w]) = 3
        /\ sent[w][2] \notin failed[w]
        /\ sent[w][3] \in failed[w]
        /\ ~Registered(w)
        /\ hpc[h] = "ok"
        /\ ev[h].n > sent[w][3].n
        /\ ev[h] \in Range(sent[v])

\* C9: a websocket whose disconnect has returned is not registered, and
\* nothing is handed to it from then on.
C9_NothingAfterDisconnect ==
    /\ [](\A w \in WebSockets : wpc[w] = "done" => ~Registered(w))
    /\ [][\A w \in WebSockets : wpc[w] = "done" => sent'[w] = sent[w]]_vars

\* A websocket was handed init, created, updated and was then detached; the
\* broadcast of a later delete is over and did not reach it.
C9_Witness ==
    \E w \in WebSockets, h \in Requests :
        /\ wpc[w] = "done"
        /\ Len(sent[w]) = 3
        /\ sent[w][1].type = "init"
        /\ sent[w][2].type = "player_created"
        /\ sent[w][3].type = "stats_updated"
        /\ failed[w] = {}
        /\ hpc[h] = "ok"
        /\ ev[h].type = "player_deleted"
        /\ ev[h].n > sent[w][3].n

Count(s, m) == Cardinality({i \in DOMAIN s : s[i] = m})

NoDuplicates(s) == \A i, j \in DOMAIN s : i # j => s[i] # s[j]

\* C10: active_connections never holds a websocket twice, and when a pass
\* ends its event has been handed exactly once to every connection of the
\* membership copy.
C10_ExactlyOnce ==
    /\ [](NoDuplicates(active_connections))
    /\ [][\A h \in Requests :
            PassEnds(h) =>
                \A c \in Range(conns[h]) : Count(sent'[c], ev[h]) = 1]_vars

\* Two websockets are registered and one pass has handed its event once to
\* each of them.
C10_Witness ==
    \E h \in Requests, w, v \in WebSockets :
        /\ w # v
        /\ Registered(w) /\ Registered(v)
        /\ hpc[h] = "ok"
        /\ Count(sent[w], ev[h]) = 1
        /\ Count(sent[v], ev[h]) = 1

\* C11: disconnect on a websocket that is not in active_connections leaves
\* the list as it is and ends normally, and removing a websocket twice
\* gives the list that removing it once gives.
C11_DisconnectIdempotent ==
    /\ [](\A w \in WebSockets :
            LET once == RemoveIfPresent(active_connections, w) IN
            /\ ~Registered(w) => once = active_connections
            /\ RemoveIfPresent(once, w) = once)
    /\ [][\A w \in WebSockets :
            (wpc[w] \in {"receive", "disconnect_wait"} /\ wpc'[w] # wpc[w]
                /\ wpc'[w] # "disconnect_wait" /\ ~Registered(w)) =>
                (wpc'[w] = "done" /\ active_connections' = active_connections)]_vars

\* disconnect has run for a websocket that a broadcast had pruned before,
\* while another websocket is registered.
C11_Witness ==
    \E w, v \in WebSockets :
        /\ wpc[w] = "done"
        /\ \E m \in failed[w] : IsEvent(m)
        /\ Registered(v)

\* h is inside the lock-guarded section of broadcast.
InPass(h) == hpc[h] = "bc_send"

\* C12: at most one task is inside a lock-guarded section, and it owns the
\* lock; from the membership copy of a pass to its pruning the list equals
\* the copy, and the only step that changes it is the end of that pass.
C12_MutualExclusion ==
    /\ [](\A h \in Requests :
            InPass(h) =>
                /\ lockOwner = ReqTask(h)
                /\ conns[h] = active_connections
                /\ \A g \in Requests : InPass(g) => g = h)
    /\ [][\A h \in Requests :
            InPass(h) =>
                \/ active_connections' = active_connections
                \/ PassEnds(h)]_vars

\* A pass is in progress while a connect and another broadcast wait for
\* the lock.
C12_Witness ==
    \E h, g \in Requests, w \in WebSockets :
        /\ InPass(h)
        /\ hpc[g] = "bc_wait"
        /\ wpc[w] = "connect_wait"

\* An event's send to w has raised.
EventFailed(w) == \E m \in failed[w] : IsEvent(m)

\* C13: a websocket that connect has appended is in active_connections
\* until its own disconnect or a failed send of an event to it, and it
\* leaves the list only in its own disconnect or at the end of a pass whose
\* send to it raised.
C13_NoAttachLost ==
    /\ [](\A w \in WebSockets :
            (Attached(w) /\ wpc[w] # "done" /\ ~EventFailed(w)) => Registered(w))
    /\ [][\A w \in WebSockets :
            (Registered(w) /\ ~Registered(w)') =>
                \/ wpc[w] # "done" /\ wpc'[w] = "done"
                \/ \E h \in Requests : PassEnds(h) /\ ev[h] \in failed'[w]]_vars

\* A pass pruned one websocket; another one, appended after that pass had
\* taken its copy, is registered.
C13_Witness ==
    \E h \in Requests, w, v \in WebSockets :
        /\ hpc[h] = "ok"
        /\ ev[h] \in failed[v] /\ ~Registered(v)
        /\ Registered(w)
        /\ sent[w][1].n >= ev[h].n
        /\ ev[h] \notin Range(sent[w])

\* h has called broadcast.
Called(h) == hpc[h] \in {"bc_wait", "bc_send", "ok"}

\* C14: every commit belongs to exactly one request, which has called
\* broadcast with its event; every event handed to a websocket is that of
\* a commit the table already holds; and passes run in commit order.
C14_BroadcastAfterCommit ==
    /\ store = StoreAfter(Len(commits))
    /\ \A k \in 1..Len(commits) :
          /\ commits[k].n = k
          /\ Cardinality({h \in Requests : ev[h] = commits[k] /\ Called(h)}) = 1
    /\ \A h \in Requests :
          Called(h) => (ev[h].n \in 1..Len(commits) /\ commits[ev[h].n] = ev[h])
    /\ \A w \in WebSockets : \A i \in 2..Len(sent[w]) :
          /\ sent[w][i].n \in 1..Len(commits)
          /\ commits[sent[w][i].n] = sent[w][i]
    /\ \A h, g \in Requests :
          (Called(h) /\ Called(g) /\ ev[h].n < ev[g].n /\ hpc[g] # "bc_wait")
              => hpc[h] = "ok"

\* A websocket was handed the events of two commits, and a third request
\* has committed and waits for the lock.
C14_Witness ==
    \E w \in WebSockets, h \in Requests :
        /\ Len(sent[w]) = 3
        /\ Len(commits) = 3
        /\ hpc[h] = "bc_wait"

\* C15: a request that commits nothing ends with 404 and has called no
\* broadcast: nothing is sent, and the table, the list and the lock are
\* left as they were.
C15_NotFoundSendsNothing ==
    [][\A h \in Requests :
          (hpc[h] = "new" /\ hpc'[h] # "new" /\ commits' = commits) =>
              /\ hpc'[h] = "404"
              /\ ev'[h] = NoMsg
              /\ UNCHANGED <<store, active_connections, sent, lockOwner, waiters>>]_vars

\* A request for an unknown player got its 404 while a websocket was
\* registered and a pass was in progress.
C15_Witness ==
    \E h, g \in Requests, w \in WebSockets :
        /\ hpc[h] = "404"
        /\ InPass(g)
        /\ Registered(w)

\* C16: when every send terminates, a websocket whose receive loop meets
\* the closed transport is eventually through disconnect; from then on it
\* is not in active_connections and no send to it is called.
C16_DisconnectDetaches ==
    /\ \A w \in WebSockets :
          (\/ wpc[w] = "receive" /\ cstate[w] = "closed"
           \/ wpc[w] = "disconnect_wait") ~> (wpc[w] = "done")
    /\ [](\A w \in WebSockets :
            wpc[w] = "done" =>
                /\ ~Registered(w)
                /\ \A h \in Requests : InPass(h) => w \notin Range(conns[h]))
    /\ [][\A w \in WebSockets : wpc[w] = "done" => sent'[w] = sent[w]]_vars

\* A websocket that received an event without failure is through
\* disconnect while a later request has committed.
C16_Witness ==
    \E w \in WebSockets :
        /\ wpc[w] = "done"
        /\ failed[w] = {}
        /\ Len(sent[w]) = 2
        /\ Len(commits) = 2

\* The send_json calls on w that have not returned.
SendsInFlight(w) ==
    (IF wpc[w] = "init_send" THEN 1 ELSE 0)
        + Cardinality({h \in Requests : InPass(h) /\ conns[h][idx[h]] = w})

\* C17: no two send_json calls are in flight on one websocket; the init
\* send never overlaps a broadcast's send to the same websocket.
C17_OneSendInFlight == \A w \in WebSockets : SendsInFlight(w) <= 1

\* t is between calling acquire and leaving the guarded section.
WantsLock(t) == lockOwner = t \/ t \in Range(waiters)

\* C18: when every send terminates, the lock is free again and again, and
\* whenever it is free no task waits for it or is inside a guarded
\* section: every connect, disconnect and broadcast that called acquire
\* has got the lock, left its section and released.
C18_LockNeverDeadlocks ==
    /\ []<>(lockOwner = None)
    /\ [](/\ lockOwner = None =>
               \A h \in Requests, w \in WebSockets :
                   ~WantsLock(ReqTask(h)) /\ ~WantsLock(WsTask(w))
          /\ \A h \in Requests :
               WantsLock(ReqTask(h)) <=> hpc[h] \in {"bc_wait", "bc_send"}
          /\ \A w \in WebSockets :
               WantsLock(WsTask(w)) <=> wpc[w] \in {"connect_wait", "disconnect_wait"}
          /\ \A i, j \in DOMAIN waiters : waiters[i] = waiters[j] => i = j
          /\ lockOwner \notin Range(waiters))

\* A disconnect was handed the lock while a broadcast and a connect wait
\* behind it.
C18_Witness ==
    \E w, v \in WebSockets, h \in Requests :
        /\ lockOwner = WsTask(w) /\ wpc[w] = "disconnect_wait"
        /\ hpc[h] = "bc_wait"
        /\ wpc[v] = "connect_wait"

\* a can be obtained from b by deleting entries.
RECURSIVE IsSubSeq(_, _)
IsSubSeq(a, b) ==
    IF a = <<>> THEN TRUE
    ELSE IF b = <<>> THEN FALSE
    ELSE IF Head(a) = Head(b) THEN IsSubSeq(Tail(a), Tail(b))
    ELSE IsSubSeq(a, Tail(b))

\* C19: the list a pass leaves is a sub-sequence of the list it started
\* with, and it is that list when no send of the pass raised.
C19_PassFrame ==
    [][\A h \in Requests :
          (hpc[h] # "ok" /\ hpc'[h] = "ok") =>
              LET start == IF InPass(h) THEN conns[h] ELSE active_connections IN
              /\ IsSubSeq(active_connections', start)
              /\ (\A c \in Range(start) : ev'[h] \notin failed'[c]) =>
                     active_connections' = start]_vars

\* A pass over two websockets is over, both sends returned, and the list
\* holds both in their order.
C19_Witness ==
    \E h \in Requests :
        /\ hpc[h] = "ok"
        /\ active_connections = <<1, 2>>
        /\ \A w \in WebSockets : Count(sent[w], ev[h]) = 1 /\ failed[w] = {}

====
